---- MODULE Spec2Model ----
(***************************************************************************)
(* Mini-LISP interpreter (minilisp.py): lexer, S-expression reader, AST    *)
(* builder and the tree-walking evaluator, the latter unfolded into a      *)
(* small-step machine (control, continuation stack, frame heap, stdout).   *)
(***************************************************************************)
EXTENDS Integers, Sequences, FiniteSets, TLC

(***************************************************************************)
(* Characters.  A source text is a sequence of one-character strings.      *)
(***************************************************************************)
DigitSeq == <<"0", "1", "2", "3", "4", "5", "6", "7", "8", "9">>
Digit == {DigitSeq[i] : i \in 1..10}
NonZero == Digit \ {"0"}
Lower == {"a", "b", "c", "d", "e", "f", "g", "h", "i", "j", "k", "l", "m",
          "n", "o", "p", "q", "r", "s", "t", "u", "v", "w", "x", "y", "z"}
IdTail == Lower \cup Digit \cup {"-"}
OpChar == {"+", "*", "/", "<", ">", "="}
White == {" ", "\t", "\n", "\r"}

RECURSIVE RunLen(_, _, _)
\* length of the longest run of characters of class C in s from position i
RunLen(s, i, C) ==
  IF i <= Len(s) /\ s[i] \in C THEN 1 + RunLen(s, i + 1, C) ELSE 0

\* the regular expression of tokenize, tried at position i: the length of
\* the first alternative that matches there, 0 when none does
MatchLen(s, i) ==
  LET c == s[i]
      d == IF i < Len(s) THEN s[i + 1] ELSE ""
  IN  IF c \in {"(", ")"} THEN 1
      ELSE IF c = "#" /\ d \in {"t", "f"} THEN 2
      ELSE IF c = "0" THEN 1
      ELSE IF c = "-" /\ d \in NonZero THEN 2 + RunLen(s, i + 2, Digit)
      ELSE IF c \in NonZero THEN 1 + RunLen(s, i + 1, Digit)
      ELSE IF c \in Lower THEN 1 + RunLen(s, i + 1, IdTail)
      ELSE IF c \in OpChar THEN 1
      ELSE IF c = "-" THEN 1
      ELSE 0

RECURSIVE Scan(_, _, _)
\* re.findall: non-overlapping matches left to right; a position where no
\* alternative matches is stepped over
Scan(s, i, acc) ==
  IF i > Len(s) THEN acc
  ELSE LET n == MatchLen(s, i)
       IN  IF n = 0 THEN Scan(s, i + 1, acc)
           ELSE Scan(s, i + n, Append(acc, SubSeq(s, i, i + n - 1)))

tokenize(s) == Scan(s, 1, <<>>)

RECURSIVE Skipped(_, _)
\* the characters findall steps over, in order
Skipped(s, i) ==
  IF i > Len(s) THEN <<>>
  ELSE LET n == MatchLen(s, i)
       IN  IF n = 0 THEN <<s[i]>> \o Skipped(s, i + 1)
           ELSE Skipped(s, i + n)

(***************************************************************************)
(* Atoms and S-expressions.  Every Python object the program handles is a  *)
(* record [t, v]: t is the Python type.                                    *)
(***************************************************************************)
PyInt(n) == [t |-> "int", v |-> n]
PyBool(b) == [t |-> "bool", v |-> b]
PyStr(x) == [t |-> "str", v |-> x]
PyList(l) == [t |-> "list", v |-> l]
PyNone == [t |-> "None", v |-> 0]

RECURSIVE Str(_)
\* the token as one string
Str(cs) == IF cs = <<>> THEN "" ELSE Head(cs) \o Str(Tail(cs))

DigitVal(c) == CHOOSE i \in 0..9 : DigitSeq[i + 1] = c

RECURSIVE Decimal(_, _)
Decimal(cs, acc) ==
  IF cs = <<>> THEN acc ELSE Decimal(Tail(cs), 10 * acc + DigitVal(Head(cs)))

\* int(t) of a token that the number pattern matched
ToInt(cs) == IF Head(cs) = "-" THEN 0 - Decimal(Tail(cs), 0) ELSE Decimal(cs, 0)

\* re.match(r'0|-?[1-9]\d*$', t)
IsNumTok(cs) ==
  \/ cs[1] = "0"
  \/ LET k == IF cs[1] = "-" THEN 2 ELSE 1
     IN  /\ k <= Len(cs)
         /\ cs[k] \in NonZero
         /\ \A j \in (k + 1)..Len(cs) : cs[j] \in Digit

ToAtom(cs) ==
  IF cs = <<"#", "t">> THEN PyBool(TRUE)
  ELSE IF cs = <<"#", "f">> THEN PyBool(FALSE)
  ELSE IF IsNumTok(cs) THEN PyInt(ToInt(cs))
  ELSE PyStr(Str(cs))

\* the line error_syntax prints: the token is shown only when it is truthy
NoTok == PyNone
Truthy(a) ==
  CASE a.t = "None" -> FALSE
    [] a.t = "int" -> a.v # 0
    [] a.t = "bool" -> a.v
    [] a.t = "str" -> a.v # ""
    [] a.t = "list" -> a.v # <<>>
    [] OTHER -> TRUE
SyntaxLine(tok) ==
  [kind |-> "syntax", tok |-> IF Truthy(tok) THEN tok ELSE NoTok]
error_syntax(tok) == [ok |-> FALSE, line |-> SyntaxLine(tok)]

RECURSIVE read_sexp(_)
RECURSIVE read_list(_, _)
\* one S-expression off the front of the tokens: [ok, val, rest] or the
\* syntax error line that ends the run
read_sexp(tokens) ==
  IF tokens = <<>> THEN error_syntax(NoTok)
  ELSE LET t == Head(tokens)
           rest == Tail(tokens)
       IN  IF t = <<"(">> THEN read_list(rest, <<>>)
           ELSE IF t = <<")">> THEN error_syntax(PyStr(")"))
           ELSE [ok |-> TRUE, val |-> ToAtom(t), rest |-> rest]

read_list(tokens, L) ==
  IF tokens = <<>> THEN error_syntax(NoTok)
  ELSE IF Head(tokens) = <<")">>
       THEN [ok |-> TRUE, val |-> PyList(L), rest |-> Tail(tokens)]
  ELSE LET r == read_sexp(tokens)
       IN  IF r.ok THEN read_list(r.rest, Append(L, r.val)) ELSE r

(***************************************************************************)
(* AST builder.                                                            *)
(***************************************************************************)
OpNames == {"+", "-", "*", "/", "mod", ">", "<", "=", "and", "or", "not"}

IsStr(s, x) == s.t = "str" /\ s.v = x

RECURSIVE parse_exp(_)
RECURSIVE parse_stmt(_)
RECURSIVE parse_each(_, _, _)

\* [f(x) for x in xs]: the nodes, or the first error
parse_each(xs, stmts, acc) ==
  IF xs = <<>> THEN [ok |-> TRUE, nodes |-> acc]
  ELSE LET r == IF stmts THEN parse_stmt(Head(xs)) ELSE parse_exp(Head(xs))
       IN  IF r.ok THEN parse_each(Tail(xs), stmts, Append(acc, r.node)) ELSE r

parse_stmt(s) ==
  IF s.t = "list" /\ s.v # <<>> /\ IsStr(s.v[1], "define")
  THEN IF Len(s.v) # 3 THEN error_syntax(s.v[1])
       ELSE LET r == parse_exp(s.v[3])
            IN  IF r.ok
                THEN [ok |-> TRUE, node |-> [c |-> "Def", n |-> s.v[2], v |-> r.node]]
                ELSE r
  ELSE IF s.t = "list" /\ s.v # <<>>
          /\ (IsStr(s.v[1], "print-num") \/ IsStr(s.v[1], "print-bool"))
  THEN IF Len(s.v) # 2 THEN error_syntax(s.v[1])
       ELSE LET r == parse_exp(s.v[2])
            IN  IF r.ok
                THEN [ok |-> TRUE,
                      node |-> [c |-> "Print", is_n |-> IsStr(s.v[1], "print-num"),
                                exp |-> r.node]]
                ELSE r
  ELSE parse_exp(s)

parse_exp(s) ==
  IF s.t # "list"
  THEN IF s.t \in {"int", "bool"} THEN [ok |-> TRUE, node |-> [c |-> "Val", v |-> s]]
       ELSE IF s.v \in OpNames THEN error_syntax(s)
       ELSE [ok |-> TRUE, node |-> [c |-> "Var", n |-> s]]
  ELSE IF s.v = <<>> THEN error_syntax(NoTok)
  ELSE LET head == s.v[1]
       IN  IF IsStr(head, "if")
           THEN IF Len(s.v) # 4 THEN error_syntax(head)
                ELSE LET r == parse_each(Tail(s.v), FALSE, <<>>)
                     IN  IF r.ok
                         THEN [ok |-> TRUE,
                               node |-> [c |-> "If", t |-> r.nodes[1],
                                         a |-> r.nodes[2], b |-> r.nodes[3]]]
                         ELSE r
           ELSE IF IsStr(head, "fun")
           THEN IF Len(s.v) < 3 THEN error_syntax(head)
                ELSE IF s.v[2].t # "list" THEN error_syntax(s.v[2])
                ELSE LET r == parse_each(SubSeq(s.v, 3, Len(s.v)), TRUE, <<>>)
                     IN  IF r.ok
                         THEN [ok |-> TRUE,
                               node |-> [c |-> "Fun", args |-> s.v[2].v,
                                         body |-> r.nodes]]
                         ELSE r
           ELSE IF head.t = "str" /\ head.v \in OpNames
           THEN LET r == parse_each(Tail(s.v), FALSE, <<>>)
                IN  IF r.ok
                    THEN [ok |-> TRUE,
                          node |-> [c |-> "Op", op |-> head.v, args |-> r.nodes]]
                    ELSE r
           ELSE LET f == parse_exp(head)
                IN  IF ~f.ok THEN f
                    ELSE LET r == parse_each(Tail(s.v), FALSE, <<>>)
                         IN  IF r.ok
                             THEN [ok |-> TRUE,
                                   node |-> [c |-> "Call", f |-> f.node,
                                             args |-> r.nodes]]
                             ELSE r

RECURSIVE parse_prog(_, _)
\* while tokens: read one S-expression, build its statement
parse_prog(tokens, nodes) ==
  IF tokens = <<>> THEN [ok |-> TRUE, nodes |-> nodes]
  ELSE LET r == read_sexp(tokens)
       IN  IF ~r.ok THEN r
           ELSE LET p == parse_stmt(r.val)
                IN  IF p.ok THEN parse_prog(r.rest, Append(nodes, p.node)) ELSE p

(***************************************************************************)
(* Values, frames, output lines.                                           *)
(***************************************************************************)
Closure(args, body, env) ==
  [t |-> "Closure", args |-> args, body |-> body, env |-> env]

typeof(v) ==
  IF v.t = "int" THEN "number" ELSE IF v.t = "bool" THEN "boolean" ELSE "function"

TypeError(expect, v) == [kind |-> "type", expect |-> expect, got |-> typeof(v)]
NumLine(n) == [kind |-> "num", v |-> n]
BoolLine(b) == [kind |-> "bool", v |-> b]
IsErrorLine(l) == l.kind \notin {"num", "bool"}

\* 0 and 1 are the same dict key as False and True
KeyNum(a) == IF a.t = "bool" THEN (IF a.v THEN 1 ELSE 0) ELSE a.v
KeyEq(a, b) ==
  IF a.t = "str" \/ b.t = "str" THEN a.t = b.t /\ a.v = b.v
  ELSE KeyNum(a) = KeyNum(b)
Hashable(a) == a.t # "list"

\* a frame is [b |-> <<[k, v], ...>>, par |-> frame id, 0 for None]
Has(b, n) == \E i \in 1..Len(b) : KeyEq(b[i].k, n)
Get(b, n) == b[CHOOSE i \in 1..Len(b) : KeyEq(b[i].k, n)].v
Put(b, n, v) ==
  IF Has(b, n)
  THEN [i \in 1..Len(b) |-> IF KeyEq(b[i].k, n) THEN [k |-> b[i].k, v |-> v] ELSE b[i]]
  ELSE Append(b, [k |-> n, v |-> v])

(***************************************************************************)
(* Primitive operators: Op.eval once every operand has a value.            *)
(***************************************************************************)
Val(v) == [r |-> "val", v |-> v]
Err(line) == [r |-> "err", line |-> line]
Exc(e) == [r |-> "exc", e |-> e]

Abs(a) == IF a < 0 THEN 0 - a ELSE a
\* int(a / b)
TruncDiv(a, b) ==
  IF (a < 0) = (b < 0) THEN Abs(a) \div Abs(b) ELSE 0 - (Abs(a) \div Abs(b))
\* int(math.fmod(a, b))
FMod(a, b) == IF a < 0 THEN 0 - (Abs(a) % Abs(b)) ELSE a % Abs(b)

\* the first operand check_num rejects, 0 when all are numbers
FirstNonNum(vs) ==
  IF \E i \in 1..Len(vs) : vs[i].t # "int"
  THEN CHOOSE i \in 1..Len(vs) : vs[i].t # "int" /\ \A j \in 1..(i - 1) : vs[j].t = "int"
  ELSE 0

RECURSIVE Sum(_)
Sum(vs) == IF vs = <<>> THEN 0 ELSE Head(vs).v + Sum(Tail(vs))
RECURSIVE Product(_)
Product(vs) == IF vs = <<>> THEN 1 ELSE Head(vs).v * Product(Tail(vs))

RECURSIVE AllEqual(_, _)
\* all(check_num(x) == check_num(vs[0]) for x in vs), from operand i on
AllEqual(vs, i) ==
  IF i > Len(vs) THEN Val(PyBool(TRUE))
  ELSE IF vs[i].t # "int" THEN Err(TypeError("number", vs[i]))
  ELSE IF vs[1].t # "int" THEN Err(TypeError("number", vs[1]))
  ELSE IF vs[i].v # vs[1].v THEN Val(PyBool(FALSE))
  ELSE AllEqual(vs, i + 1)

Check2(vs, f) ==
  IF vs[1].t # "int" THEN Err(TypeError("number", vs[1]))
  ELSE IF vs[2].t # "int" THEN Err(TypeError("number", vs[2]))
  ELSE f

Divide(vs) ==
  IF vs[2].t # "int" THEN Err(TypeError("number", vs[2]))
  ELSE IF vs[2].v = 0 THEN Err([kind |-> "divzero"])
  ELSE IF vs[1].t # "int" THEN Err(TypeError("number", vs[1]))
  ELSE Val(PyInt(TruncDiv(vs[1].v, vs[2].v)))

Modulo(vs) ==
  Check2(vs, IF vs[2].v = 0 THEN Exc("ValueError")
             ELSE Val(PyInt(FMod(vs[1].v, vs[2].v))))

Apply(op, vs) ==
  CASE op = "not" ->
         IF vs[1].t # "bool" THEN Err(TypeError("boolean", vs[1]))
         ELSE Val(PyBool(~vs[1].v))
    [] op \in {"+", "*"} ->
         IF FirstNonNum(vs) # 0 THEN Err(TypeError("number", vs[FirstNonNum(vs)]))
         ELSE Val(PyInt(IF op = "+" THEN Sum(vs) ELSE Product(vs)))
    [] op = "-" -> Check2(vs, Val(PyInt(vs[1].v - vs[2].v)))
    [] op = "/" -> Divide(vs)
    [] op = "mod" -> Modulo(vs)
    [] op = ">" -> Check2(vs, Val(PyBool(vs[1].v > vs[2].v)))
    [] op = "<" -> Check2(vs, Val(PyBool(vs[1].v < vs[2].v)))
    [] op = "=" -> AllEqual(vs, 1)

\* the arity check at the head of Op.eval: the error line, or NoTok
ArityError(op, cnt) ==
  IF op \in {"+", "*", "=", "and", "or"} /\ cnt < 2
  THEN [kind |-> "arity", form |-> "at least 2", got |-> cnt]
  ELSE IF op \in {"-", "/", "mod", ">", "<"} /\ cnt # 2
  THEN [kind |-> "arity", form |-> "2", got |-> cnt]
  ELSE IF op = "not" /\ cnt # 1
  THEN [kind |-> "arity", form |-> "1", got |-> cnt]
  ELSE [kind |-> "ok"]

\* and / or that evaluate every operand
StopsNever(op, b) == FALSE

\* all() stops at the first false operand, any() at the first true one
Stops(op, b) == IF op = "and" THEN ~b ELSE b

(***************************************************************************)
(* Source texts the runs are given.                                        *)
(***************************************************************************)
\* (print-num (+ 1 2 3))
Prog1 ==
  <<"(", "p", "r", "i", "n", "t", "-", "n", "u", "m", " ", "(", "+", " ", "1", " ", "2", " ", "3", ")", ")">>
\* (define x 10) (define f (fun (y) (+ x y))) (define x-unused 0) (print-num (f 5))
Prog2 ==
  <<"(", "d", "e", "f", "i", "n", "e", " ", "x", " ", "1", "0", ")", " ", "(", "d", "e", "f", "i", "n", "e", " ", "f", " ", "(", "f", "u", "n", " ", "(", "y", ")", " ", "(", "+", " ", "x", " ", "y", ")", ")", ")", " ", "(", "d", "e", "f", "i", "n", "e", " ", "x", "-", "u", "n", "u", "s", "e", "d", " ", "0", ")", " ", "(", "p", "r", "i", "n", "t", "-", "n", "u", "m", " ", "(", "f", " ", "5", ")", ")">>
\* (print-bool (and #t (> 3 2) (= 2 2 2)))
Prog3 ==
  <<"(", "p", "r", "i", "n", "t", "-", "b", "o", "o", "l", " ", "(", "a", "n", "d", " ", "#", "t", " ", "(", ">", " ", "3", " ", "2", ")", " ", "(", "=", " ", "2", " ", "2", " ", "2", ")", ")", ")">>
\* (print-num (mod -7 3))
Prog4 ==
  <<"(", "p", "r", "i", "n", "t", "-", "n", "u", "m", " ", "(", "m", "o", "d", " ", "-", "7", " ", "3", ")", ")">>
\* (define fact (fun (n) (if (< n 2) 1 (* n (fact (- n 1)))))) (print-num (fact 3))
Prog5 ==
  <<"(", "d", "e", "f", "i", "n", "e", " ", "f", "a", "c", "t", " ", "(", "f", "u", "n", " ", "(", "n", ")", " ", "(", "i", "f", " ", "(", "<", " ", "n", " ", "2", ")", " ", "1", " ", "(", "*", " ", "n", " ", "(", "f", "a", "c", "t", " ", "(", "-", " ", "n", " ", "1", ")", ")", ")", ")", ")", ")", " ", "(", "p", "r", "i", "n", "t", "-", "n", "u", "m", " ", "(", "f", "a", "c", "t", " ", "3", ")", ")">>
\* (print-num (+ 1 #t))
Prog6 ==
  <<"(", "p", "r", "i", "n", "t", "-", "n", "u", "m", " ", "(", "+", " ", "1", " ", "#", "t", ")", ")">>
\* (define x 1)(define f (fun () x))(define g (fun (x) (f)))(print-num (g 2))
Prog7 ==
  <<"(", "d", "e", "f", "i", "n", "e", " ", "x", " ", "1", ")", "(", "d", "e", "f", "i", "n", "e", " ", "f", " ", "(", "f", "u", "n", " ", "(", ")", " ", "x", ")", ")", "(", "d", "e", "f", "i", "n", "e", " ", "g", " ", "(", "f", "u", "n", " ", "(", "x", ")", " ", "(", "f", ")", ")", ")", "(", "p", "r", "i", "n", "t", "-", "n", "u", "m", " ", "(", "g", " ", "2", ")", ")">>
\* (define mk (fun (x) (fun (y) (+ x y))))(define add1 (mk 1))(define x 10)(print-num (add1 2))
Prog8 ==
  <<"(", "d", "e", "f", "i", "n", "e", " ", "m", "k", " ", "(", "f", "u", "n", " ", "(", "x", ")", " ", "(", "f", "u", "n", " ", "(", "y", ")", " ", "(", "+", " ", "x", " ", "y", ")", ")", ")", ")", "(", "d", "e", "f", "i", "n", "e", " ", "a", "d", "d", "1", " ", "(", "m", "k", " ", "1", ")", ")", "(", "d", "e", "f", "i", "n", "e", " ", "x", " ", "1", "0", ")", "(", "p", "r", "i", "n", "t", "-", "n", "u", "m", " ", "(", "a", "d", "d", "1", " ", "2", ")", ")">>
\* (define x 1)(define mk (fun () (fun () x)))(print-num ((mk)))
Prog9 ==
  <<"(", "d", "e", "f", "i", "n", "e", " ", "x", " ", "1", ")", "(", "d", "e", "f", "i", "n", "e", " ", "m", "k", " ", "(", "f", "u", "n", " ", "(", ")", " ", "(", "f", "u", "n", " ", "(", ")", " ", "x", ")", ")", ")", "(", "p", "r", "i", "n", "t", "-", "n", "u", "m", " ", "(", "(", "m", "k", ")", ")", ")">>
\* (define x 1)(define mk (fun () (fun (x) (fun () x))))(print-num (((mk) 2)))
Prog10 ==
  <<"(", "d", "e", "f", "i", "n", "e", " ", "x", " ", "1", ")", "(", "d", "e", "f", "i", "n", "e", " ", "m", "k", " ", "(", "f", "u", "n", " ", "(", ")", " ", "(", "f", "u", "n", " ", "(", "x", ")", " ", "(", "f", "u", "n", " ", "(", ")", " ", "x", ")", ")", ")", ")", "(", "p", "r", "i", "n", "t", "-", "n", "u", "m", " ", "(", "(", "(", "m", "k", ")", " ", "2", ")", ")", ")">>
\* (define x 1)(define f (fun (x) ((fun () ((fun () x))))))(print-num (f 2))
Prog11 ==
  <<"(", "d", "e", "f", "i", "n", "e", " ", "x", " ", "1", ")", "(", "d", "e", "f", "i", "n", "e", " ", "f", " ", "(", "f", "u", "n", " ", "(", "x", ")", " ", "(", "(", "f", "u", "n", " ", "(", ")", " ", "(", "(", "f", "u", "n", " ", "(", ")", " ", "x", ")", ")", ")", ")", ")", ")", "(", "p", "r", "i", "n", "t", "-", "n", "u", "m", " ", "(", "f", " ", "2", ")", ")">>
\* (define x 1)(define f (fun (y) ((fun () ((fun () x))))))(print-num (f 2))
Prog12 ==
  <<"(", "d", "e", "f", "i", "n", "e", " ", "x", " ", "1", ")", "(", "d", "e", "f", "i", "n", "e", " ", "f", " ", "(", "f", "u", "n", " ", "(", "y", ")", " ", "(", "(", "f", "u", "n", " ", "(", ")", " ", "(", "(", "f", "u", "n", " ", "(", ")", " ", "x", ")", ")", ")", ")", ")", ")", "(", "p", "r", "i", "n", "t", "-", "n", "u", "m", " ", "(", "f", " ", "2", ")", ")">>
\* (print-num 1)(print-num (mod 1 0))(print-num 2)
Prog13 ==
  <<"(", "p", "r", "i", "n", "t", "-", "n", "u", "m", " ", "1", ")", "(", "p", "r", "i", "n", "t", "-", "n", "u", "m", " ", "(", "m", "o", "d", " ", "1", " ", "0", ")", ")", "(", "p", "r", "i", "n", "t", "-", "n", "u", "m", " ", "2", ")">>
\* (print-num 1)(print-num (/ 1 0))(print-num 2)
Prog14 ==
  <<"(", "p", "r", "i", "n", "t", "-", "n", "u", "m", " ", "1", ")", "(", "p", "r", "i", "n", "t", "-", "n", "u", "m", " ", "(", "/", " ", "1", " ", "0", ")", ")", "(", "p", "r", "i", "n", "t", "-", "n", "u", "m", " ", "2", ")">>
\* (print-num (/ -7 2))(print-num (mod 7 -3))(print-num (- 1 4))(print-bool (not (< 1 2)))
Prog15 ==
  <<"(", "p", "r", "i", "n", "t", "-", "n", "u", "m", " ", "(", "/", " ", "-", "7", " ", "2", ")", ")", "(", "p", "r", "i", "n", "t", "-", "n", "u", "m", " ", "(", "m", "o", "d", " ", "7", " ", "-", "3", ")", ")", "(", "p", "r", "i", "n", "t", "-", "n", "u", "m", " ", "(", "-", " ", "1", " ", "4", ")", ")", "(", "p", "r", "i", "n", "t", "-", "b", "o", "o", "l", " ", "(", "n", "o", "t", " ", "(", "<", " ", "1", " ", "2", ")", ")", ")">>
\* (define (a) 1)
Prog16 ==
  <<"(", "d", "e", "f", "i", "n", "e", " ", "(", "a", ")", " ", "1", ")">>
\* ((fun ((a)) 1) 2)
Prog17 ==
  <<"(", "(", "f", "u", "n", " ", "(", "(", "a", ")", ")", " ", "1", ")", " ", "2", ")">>
\* (print-num 1)(print-num y)(print-num 2)
Prog18 ==
  <<"(", "p", "r", "i", "n", "t", "-", "n", "u", "m", " ", "1", ")", "(", "p", "r", "i", "n", "t", "-", "n", "u", "m", " ", "y", ")", "(", "p", "r", "i", "n", "t", "-", "n", "u", "m", " ", "2", ")">>
\* (define p (fun (x) (print-num x) #t))(print-bool (and #f (p 1)))(print-bool (or #t (p 2)))
Prog19 ==
  <<"(", "d", "e", "f", "i", "n", "e", " ", "p", " ", "(", "f", "u", "n", " ", "(", "x", ")", " ", "(", "p", "r", "i", "n", "t", "-", "n", "u", "m", " ", "x", ")", " ", "#", "t", ")", ")", "(", "p", "r", "i", "n", "t", "-", "b", "o", "o", "l", " ", "(", "a", "n", "d", " ", "#", "f", " ", "(", "p", " ", "1", ")", ")", ")", "(", "p", "r", "i", "n", "t", "-", "b", "o", "o", "l", " ", "(", "o", "r", " ", "#", "t", " ", "(", "p", " ", "2", ")", ")", ")">>
\* (define p (fun (x) (print-num x) #t))(print-bool (and (p 3) #f (p 4)))(print-bool (or #f (p 5) (p 6)))
Prog20 ==
  <<"(", "d", "e", "f", "i", "n", "e", " ", "p", " ", "(", "f", "u", "n", " ", "(", "x", ")", " ", "(", "p", "r", "i", "n", "t", "-", "n", "u", "m", " ", "x", ")", " ", "#", "t", ")", ")", "(", "p", "r", "i", "n", "t", "-", "b", "o", "o", "l", " ", "(", "a", "n", "d", " ", "(", "p", " ", "3", ")", " ", "#", "f", " ", "(", "p", " ", "4", ")", ")", ")", "(", "p", "r", "i", "n", "t", "-", "b", "o", "o", "l", " ", "(", "o", "r", " ", "#", "f", " ", "(", "p", " ", "5", ")", " ", "(", "p", " ", "6", ")", ")", ")">>
\* (define p (fun (x) (print-num x) #f))(print-bool (or (p 1) (p 2)))(print-bool (and #t 1 (p 3)))
Prog21 ==
  <<"(", "d", "e", "f", "i", "n", "e", " ", "p", " ", "(", "f", "u", "n", " ", "(", "x", ")", " ", "(", "p", "r", "i", "n", "t", "-", "n", "u", "m", " ", "x", ")", " ", "#", "f", ")", ")", "(", "p", "r", "i", "n", "t", "-", "b", "o", "o", "l", " ", "(", "o", "r", " ", "(", "p", " ", "1", ")", " ", "(", "p", " ", "2", ")", ")", ")", "(", "p", "r", "i", "n", "t", "-", "b", "o", "o", "l", " ", "(", "a", "n", "d", " ", "#", "t", " ", "1", " ", "(", "p", " ", "3", ")", ")", ")">>
\* (print-bool (and #f 1))(print-bool (or #t y))(print-bool (or 0 #t))
Prog22 ==
  <<"(", "p", "r", "i", "n", "t", "-", "b", "o", "o", "l", " ", "(", "a", "n", "d", " ", "#", "f", " ", "1", ")", ")", "(", "p", "r", "i", "n", "t", "-", "b", "o", "o", "l", " ", "(", "o", "r", " ", "#", "t", " ", "y", ")", ")", "(", "p", "r", "i", "n", "t", "-", "b", "o", "o", "l", " ", "(", "o", "r", " ", "0", " ", "#", "t", ")", ")">>
\* (define f (fun () (print-num 5) 2))(define x 1)(define x (f))
Prog23 ==
  <<"(", "d", "e", "f", "i", "n", "e", " ", "f", " ", "(", "f", "u", "n", " ", "(", ")", " ", "(", "p", "r", "i", "n", "t", "-", "n", "u", "m", " ", "5", ")", " ", "2", ")", ")", "(", "d", "e", "f", "i", "n", "e", " ", "x", " ", "1", ")", "(", "d", "e", "f", "i", "n", "e", " ", "x", " ", "(", "f", ")", ")">>
\* (define f (fun (a) (define a 2) a))(print-num (f 1))
Prog24 ==
  <<"(", "d", "e", "f", "i", "n", "e", " ", "f", " ", "(", "f", "u", "n", " ", "(", "a", ")", " ", "(", "d", "e", "f", "i", "n", "e", " ", "a", " ", "2", ")", " ", "a", ")", ")", "(", "p", "r", "i", "n", "t", "-", "n", "u", "m", " ", "(", "f", " ", "1", ")", ")">>
\* (define x 1)(define f (fun () (define x 2) x))(print-num (f))(print-num x)
Prog25 ==
  <<"(", "d", "e", "f", "i", "n", "e", " ", "x", " ", "1", ")", "(", "d", "e", "f", "i", "n", "e", " ", "f", " ", "(", "f", "u", "n", " ", "(", ")", " ", "(", "d", "e", "f", "i", "n", "e", " ", "x", " ", "2", ")", " ", "x", ")", ")", "(", "p", "r", "i", "n", "t", "-", "n", "u", "m", " ", "(", "f", ")", ")", "(", "p", "r", "i", "n", "t", "-", "n", "u", "m", " ", "x", ")">>
\* (define x 1)(define f (fun (y) (define x (+ x y)) x))(print-num (f 2))(print-num x)
Prog26 ==
  <<"(", "d", "e", "f", "i", "n", "e", " ", "x", " ", "1", ")", "(", "d", "e", "f", "i", "n", "e", " ", "f", " ", "(", "f", "u", "n", " ", "(", "y", ")", " ", "(", "d", "e", "f", "i", "n", "e", " ", "x", " ", "(", "+", " ", "x", " ", "y", ")", ")", " ", "x", ")", ")", "(", "p", "r", "i", "n", "t", "-", "n", "u", "m", " ", "(", "f", " ", "2", ")", ")", "(", "p", "r", "i", "n", "t", "-", "n", "u", "m", " ", "x", ")">>
\* (print-num 1)@
Prog27 ==
  <<"(", "p", "r", "i", "n", "t", "-", "n", "u", "m", " ", "1", ")", "@">>
\* (print-num X)
Prog28 ==
  <<"(", "p", "r", "i", "n", "t", "-", "n", "u", "m", " ", "X", ")">>
\* (print-num #1)
Prog29 ==
  <<"(", "p", "r", "i", "n", "t", "-", "n", "u", "m", " ", "#", "1", ")">>
\* (print-num 1 A)
Prog30 ==
  <<"(", "p", "r", "i", "n", "t", "-", "n", "u", "m", " ", "1", " ", "A", ")">>
\* (define + 1)
Prog31 ==
  <<"(", "d", "e", "f", "i", "n", "e", " ", "+", " ", "1", ")">>
\* (define + 1)(print-num 2)
Prog32 ==
  <<"(", "d", "e", "f", "i", "n", "e", " ", "+", " ", "1", ")", "(", "p", "r", "i", "n", "t", "-", "n", "u", "m", " ", "2", ")">>
\* (define 1 2)(define #t 3)
Prog33 ==
  <<"(", "d", "e", "f", "i", "n", "e", " ", "1", " ", "2", ")", "(", "d", "e", "f", "i", "n", "e", " ", "#", "t", " ", "3", ")">>
\* (define mod (fun (x) x))
Prog34 ==
  <<"(", "d", "e", "f", "i", "n", "e", " ", "m", "o", "d", " ", "(", "f", "u", "n", " ", "(", "x", ")", " ", "x", ")", ")">>
\* (define x +)
Prog35 ==
  <<"(", "d", "e", "f", "i", "n", "e", " ", "x", " ", "+", ")">>
\* (define f (fun () (define a 1)))(define y (f))(print-num y)
Prog36 ==
  <<"(", "d", "e", "f", "i", "n", "e", " ", "f", " ", "(", "f", "u", "n", " ", "(", ")", " ", "(", "d", "e", "f", "i", "n", "e", " ", "a", " ", "1", ")", ")", ")", "(", "d", "e", "f", "i", "n", "e", " ", "y", " ", "(", "f", ")", ")", "(", "p", "r", "i", "n", "t", "-", "n", "u", "m", " ", "y", ")">>
\* (define f (fun () (print-num 1)))(print-num (+ 1 (f)))
Prog37 ==
  <<"(", "d", "e", "f", "i", "n", "e", " ", "f", " ", "(", "f", "u", "n", " ", "(", ")", " ", "(", "p", "r", "i", "n", "t", "-", "n", "u", "m", " ", "1", ")", ")", ")", "(", "p", "r", "i", "n", "t", "-", "n", "u", "m", " ", "(", "+", " ", "1", " ", "(", "f", ")", ")", ")">>
\* (define f (fun (x) (print-bool x)))(print-bool (and #t (f #t)))
Prog38 ==
  <<"(", "d", "e", "f", "i", "n", "e", " ", "f", " ", "(", "f", "u", "n", " ", "(", "x", ")", " ", "(", "p", "r", "i", "n", "t", "-", "b", "o", "o", "l", " ", "x", ")", ")", ")", "(", "p", "r", "i", "n", "t", "-", "b", "o", "o", "l", " ", "(", "a", "n", "d", " ", "#", "t", " ", "(", "f", " ", "#", "t", ")", ")", ")">>
\* (if 1 2 3)
Prog39 ==
  <<"(", "i", "f", " ", "1", " ", "2", " ", "3", ")">>
\* (print-num (if (< 1 2) 3 y))(print-num (if #f y 4))
Prog40 ==
  <<"(", "p", "r", "i", "n", "t", "-", "n", "u", "m", " ", "(", "i", "f", " ", "(", "<", " ", "1", " ", "2", ")", " ", "3", " ", "y", ")", ")", "(", "p", "r", "i", "n", "t", "-", "n", "u", "m", " ", "(", "i", "f", " ", "#", "f", " ", "y", " ", "4", ")", ")">>
\* ((fun (x) x))
Prog41 ==
  <<"(", "(", "f", "u", "n", " ", "(", "x", ")", " ", "x", ")", ")">>
\* (1 2)
Prog42 ==
  <<"(", "1", " ", "2", ")">>
\* (not)
Prog43 ==
  <<"(", "n", "o", "t", ")">>
\* (+ 1)
Prog44 ==
  <<"(", "+", " ", "1", ")">>
\* (print-num ((fun (x x) x) 1 2))
Prog45 ==
  <<"(", "p", "r", "i", "n", "t", "-", "n", "u", "m", " ", "(", "(", "f", "u", "n", " ", "(", "x", " ", "x", ")", " ", "x", ")", " ", "1", " ", "2", ")", ")">>
\* (
Prog46 ==
  <<"(">>
\* )
Prog47 ==
  <<")">>
\* ()
Prog48 ==
  <<"(", ")">>
\* (define x)
Prog49 ==
  <<"(", "d", "e", "f", "i", "n", "e", " ", "x", ")">>
\* (if 1 2)
Prog50 ==
  <<"(", "i", "f", " ", "1", " ", "2", ")">>
\* (fun x 1)
Prog51 ==
  <<"(", "f", "u", "n", " ", "x", " ", "1", ")">>
\* (fun 0 1)
Prog52 ==
  <<"(", "f", "u", "n", " ", "0", " ", "1", ")">>
\* (print-num (fun))
Prog53 ==
  <<"(", "p", "r", "i", "n", "t", "-", "n", "u", "m", " ", "(", "f", "u", "n", ")", ")">>
\* +
Prog54 ==
  <<"+">>
\* (print-num 1)(print-num 2 3)
Prog55 ==
  <<"(", "p", "r", "i", "n", "t", "-", "n", "u", "m", " ", "1", ")", "(", "p", "r", "i", "n", "t", "-", "n", "u", "m", " ", "2", " ", "3", ")">>
\* (print-num 10)(print-bool #f)
Prog56 ==
  <<"(", "p", "r", "i", "n", "t", "-", "n", "u", "m", " ", "1", "0", ")", "(", "p", "r", "i", "n", "t", "-", "b", "o", "o", "l", " ", "#", "f", ")">>
\* (define x 1)(define f (fun () (define x 2) x))(print-num (f))(define x 3)
Prog57 ==
  <<"(", "d", "e", "f", "i", "n", "e", " ", "x", " ", "1", ")", "(", "d", "e", "f", "i", "n", "e", " ", "f", " ", "(", "f", "u", "n", " ", "(", ")", " ", "(", "d", "e", "f", "i", "n", "e", " ", "x", " ", "2", ")", " ", "x", ")", ")", "(", "p", "r", "i", "n", "t", "-", "n", "u", "m", " ", "(", "f", ")", ")", "(", "d", "e", "f", "i", "n", "e", " ", "x", " ", "3", ")">>

HandPrograms ==
  {Prog1, Prog2, Prog3, Prog4, Prog5, Prog6, Prog7, Prog8, Prog9, Prog10,
  Prog11, Prog12, Prog13, Prog14, Prog15, Prog16, Prog17, Prog18, Prog19,
  Prog20, Prog21, Prog22, Prog23, Prog24, Prog25, Prog26, Prog27, Prog28,
  Prog29, Prog30, Prog31, Prog32, Prog33, Prog34, Prog35, Prog36, Prog37,
  Prog38, Prog39, Prog40, Prog41, Prog42, Prog43, Prog44, Prog45, Prog46,
  Prog47, Prog48, Prog49, Prog50, Prog51, Prog52, Prog53, Prog54, Prog55,
  Prog56, Prog57}

\* bounds of the generated inputs and of the frame heap
MaxSrcLen == 3
MaxOperands == 3
MaxFrames == 8

Alphabet == {"(", ")", "1", "a", "@", "#", "t", " "}

\* every text of at most MaxSrcLen characters of Alphabet
ShortSources == UNION {[1..n -> Alphabet] : n \in 0..MaxSrcLen}

OpWords ==
  {<<"+">>, <<"-">>, <<"*">>, <<"/">>, <<"m", "o", "d">>, <<">">>, <<"<">>, <<"=">>,
   <<"a", "n", "d">>, <<"o", "r">>, <<"n", "o", "t">>}
Operands == {<<"0">>, <<"2">>, <<"-", "3">>, <<"#", "t">>, <<"#", "f">>}

RECURSIVE Spaced(_)
Spaced(ws) == IF ws = <<>> THEN <<>> ELSE <<" ">> \o Head(ws) \o Spaced(Tail(ws))

\* (OP A1 ... An) for every operator and every choice of 1..MaxOperands operands
OpSources ==
  {<<"(">> \o w \o Spaced(as) \o <<")">> :
     w \in OpWords, as \in UNION {[1..n -> Operands] : n \in 1..MaxOperands}}

Sources == HandPrograms \cup ShortSources \cup OpSources

(***************************************************************************)
(* The machine.                                                            *)
(***************************************************************************)
VARIABLES
  argc,      \* len(sys.argv) - 1
  readable,  \* open(sys.argv[1]) succeeds
  src,       \* the text of the file
  pc,        \* "start", "eval", "exit"
  status,    \* the exit status once pc = "exit"
  exc,       \* the uncaught exception that ended the run, "" when none
  nodes,     \* the statements parse_prog returned
  ip,        \* the next statement of the loop of __main__
  ctrl,      \* the eval call in progress, or the value one just returned
  kont,      \* the eval calls waiting for it, innermost first
  frames,    \* every Env created; frame 1 is the global one
  out        \* the lines on stdout

vars == <<argc, readable, src, pc, status, exc, nodes, ip, ctrl, kont, frames, out>>
input == <<argc, readable, src, nodes>>

Idle == [m |-> "idle"]
EvalIn(node, env) == [m |-> "eval", node |-> node, env |-> env]
Ret(v) == [m |-> "ret", val |-> v]

Evaluating(c) == pc = "eval" /\ ctrl.m = "eval" /\ ctrl.node.c = c
Returning(k) == pc = "eval" /\ ctrl.m = "ret" /\ kont # <<>> /\ Head(kont).k = k

\* one step of evaluation that neither prints nor ends the run
Step(c, k, fs) ==
  /\ ctrl' = c
  /\ kont' = k
  /\ frames' = fs
  /\ UNCHANGED <<input, ip, pc, status, exc, out>>

\* error_runtime without the exit: the line is printed and the caller goes on
\* with the None the function returns
error_runtime_returns(m) ==
  /\ out' = Append(out, m)
  /\ ctrl' = Ret(PyNone)
  /\ UNCHANGED <<input, ip, pc, status, exc, kont, frames>>

\* print(m); sys.exit(0)
error_runtime(m) ==
  /\ out' = Append(out, m)
  /\ pc' = "exit"
  /\ status' = 0
  /\ UNCHANGED <<input, ip, exc, ctrl, kont, frames>>

\* an exception nothing catches: traceback on stderr, exit status 1
Uncaught(e) ==
  /\ pc' = "exit"
  /\ status' = 1
  /\ exc' = e
  /\ UNCHANGED <<input, ip, ctrl, kont, frames, out>>

\* if len(sys.argv) < 2: sys.exit(1)
Usage ==
  /\ pc = "start"
  /\ argc < 1
  /\ pc' = "exit"
  /\ status' = 1
  /\ UNCHANGED <<input, ip, exc, ctrl, kont, frames, out>>

\* the parsing phase: open, tokenize, parse_prog; any exception is a bare
\* syntax error; then env = Env()
Parse ==
  /\ pc = "start"
  /\ argc >= 1
  /\ LET r == IF readable THEN parse_prog(tokenize(src), <<>>) ELSE error_syntax(NoTok)
     IN  IF r.ok
         THEN /\ nodes' = r.nodes
              /\ pc' = "eval"
              /\ frames' = <<[b |-> <<>>, par |-> 0]>>
              /\ UNCHANGED <<argc, readable, src, ip, status, exc, ctrl, kont, out>>
         ELSE /\ out' = Append(out, r.line)
              /\ pc' = "exit"
              /\ status' = 0
              /\ UNCHANGED <<input, ip, exc, ctrl, kont, frames>>

\* for n in nodes: n.eval(env)
NextStmt ==
  /\ pc = "eval"
  /\ kont = <<>>
  /\ ctrl.m \in {"idle", "ret"}
  /\ ip <= Len(nodes)
  /\ ctrl' = EvalIn(nodes[ip], 1)
  /\ ip' = ip + 1
  /\ UNCHANGED <<input, pc, status, exc, kont, frames, out>>

\* the loop is over: the interpreter exits normally
Finish ==
  /\ pc = "eval"
  /\ kont = <<>>
  /\ ctrl.m \in {"idle", "ret"}
  /\ ip > Len(nodes)
  /\ pc' = "exit"
  /\ status' = 0
  /\ UNCHANGED <<input, ip, exc, ctrl, kont, frames, out>>

ValEval ==
  /\ Evaluating("Val")
  /\ Step(Ret(ctrl.node.v), kont, frames)

\* `if self.par`: None is false, and so is an Env that holds no binding
ParTruthy(fs, f) == fs[f].par # 0 /\ Len(fs[fs[f].par].b) # 0

RECURSIVE find(_, _, _)
\* Env.find: the value, or PyNone when the search falls through to the error
find(fs, f, n) ==
  IF Has(fs[f].b, n) THEN [ok |-> TRUE, v |-> Get(fs[f].b, n)]
  ELSE IF ParTruthy(fs, f) THEN find(fs, fs[f].par, n)
  ELSE [ok |-> FALSE]

VarEval ==
  /\ Evaluating("Var")
  /\ LET r == find(frames, ctrl.env, ctrl.node.n)
     IN  IF r.ok THEN Step(Ret(r.v), kont, frames)
         ELSE error_runtime([kind |-> "undefined", n |-> ctrl.node.n])

\* a redefinition check that searches the enclosing frames as well
BoundInChain(fs, f, n) == find(fs, f, n).ok

\* `self.n in e` of Def.eval
Bound(fs, f, n) == Has(fs[f].b, n)

DefEval ==
  /\ Evaluating("Def")
  /\ LET n == ctrl.node.n
     IN  IF ~Hashable(n) THEN Uncaught("TypeError")
         ELSE IF Bound(frames, ctrl.env, n)
         THEN error_runtime([kind |-> "redefine", n |-> n])
         ELSE Step(EvalIn(ctrl.node.v, ctrl.env),
                   <<[k |-> "Def", n |-> n, env |-> ctrl.env]>> \o kont, frames)

\* e[self.n] = <value>; Def.eval returns None
DefBind ==
  /\ Returning("Def")
  /\ LET d == Head(kont)
     IN  Step(Ret(PyNone), Tail(kont),
              [frames EXCEPT ![d.env].b = Put(@, d.n, ctrl.val)])

IfEval ==
  /\ Evaluating("If")
  /\ Step(EvalIn(ctrl.node.t, ctrl.env),
          <<[k |-> "If", node |-> ctrl.node, env |-> ctrl.env]>> \o kont, frames)

IfBranch ==
  /\ Returning("If")
  /\ LET d == Head(kont)
     IN  IF ctrl.val.t # "bool" THEN error_runtime(TypeError("boolean", ctrl.val))
         ELSE Step(EvalIn(IF ctrl.val.v THEN d.node.a ELSE d.node.b, d.env),
                   Tail(kont), frames)

\* the environment a closure captures
Captured(env) == env

FunEval ==
  /\ Evaluating("Fun")
  /\ Step(Ret(Closure(ctrl.node.args, ctrl.node.body, Captured(ctrl.env))), kont, frames)

CallEval ==
  /\ Evaluating("Call")
  /\ Step(EvalIn(ctrl.node.f, ctrl.env),
          <<[k |-> "CallF", node |-> ctrl.node, env |-> ctrl.env]>> \o kont, frames)

\* the parent of the frame of a call: Env(fn.env)
NewFramePar(fn, caller) == fn.env

BodyK(fn, new_e) == [k |-> "Body", fn |-> fn, i |-> 1, env |-> new_e]

\* fn is evaluated: the two checks, new_e = Env(fn.env), then the first
\* argument, or the body when there is none
CallFn ==
  /\ Returning("CallF")
  /\ LET d == Head(kont)
         fn == ctrl.val
         new_e == Len(frames) + 1
         fs == Append(frames, [b |-> <<>>, par |-> NewFramePar(fn, d.env)])
     IN  IF fn.t # "Closure"
         THEN error_runtime([kind |-> "type", expect |-> "function", got |-> typeof(fn)])
         ELSE IF Len(d.node.args) # Len(fn.args)
         THEN error_runtime([kind |-> "arity", form |-> "call",
                             need |-> Len(fn.args), got |-> Len(d.node.args)])
         ELSE /\ Len(frames) < MaxFrames
              /\ IF d.node.args = <<>>
                 THEN Step(EvalIn(fn.body[1], new_e), <<BodyK(fn, new_e)>> \o Tail(kont), fs)
                 ELSE Step(EvalIn(d.node.args[1], d.env),
                           <<[k |-> "Arg", node |-> d.node, fn |-> fn, i |-> 1,
                              env |-> d.env, new_e |-> new_e]>> \o Tail(kont), fs)

\* new_e[n] = <value of the argument>, then the next argument or the body
CallArg ==
  /\ Returning("Arg")
  /\ LET d == Head(kont)
         n == d.fn.args[d.i]
         fs == [frames EXCEPT ![d.new_e].b = Put(@, n, ctrl.val)]
     IN  IF ~Hashable(n) THEN Uncaught("TypeError")
         ELSE IF d.i < Len(d.node.args)
         THEN Step(EvalIn(d.node.args[d.i + 1], d.env),
                   <<[d EXCEPT !.i = d.i + 1]>> \o Tail(kont), fs)
         ELSE Step(EvalIn(d.fn.body[1], d.new_e),
                   <<BodyK(d.fn, d.new_e)>> \o Tail(kont), fs)

\* for stmt in fn.body: res = stmt.eval(new_e); return res
CallBody ==
  /\ Returning("Body")
  /\ LET d == Head(kont)
     IN  IF d.i < Len(d.fn.body)
         THEN Step(EvalIn(d.fn.body[d.i + 1], d.env),
                   <<[d EXCEPT !.i = d.i + 1]>> \o Tail(kont), frames)
         ELSE Step(Ret(ctrl.val), Tail(kont), frames)

OpEval ==
  /\ Evaluating("Op")
  /\ LET node == ctrl.node
         a == ArityError(node.op, Len(node.args))
     IN  IF a.kind # "ok" THEN error_runtime(a)
         ELSE IF node.op \in {"and", "or"}
         THEN Step(EvalIn(node.args[1], ctrl.env),
                   <<[k |-> "AndOr", node |-> node, i |-> 1, env |-> ctrl.env]>> \o kont,
                   frames)
         ELSE Step(EvalIn(node.args[1], ctrl.env),
                   <<[k |-> "OpArg", node |-> node, i |-> 1, vs |-> <<>>,
                      env |-> ctrl.env]>> \o kont, frames)

\* one operand of all(...) / any(...) has its value
OpAndOr ==
  /\ Returning("AndOr")
  /\ LET d == Head(kont)
         v == ctrl.val
     IN  IF v.t # "bool" THEN error_runtime(TypeError("boolean", v))
         ELSE IF Stops(d.node.op, v.v) THEN Step(Ret(PyBool(v.v)), Tail(kont), frames)
         ELSE IF d.i < Len(d.node.args)
         THEN Step(EvalIn(d.node.args[d.i + 1], d.env),
                   <<[d EXCEPT !.i = d.i + 1]>> \o Tail(kont), frames)
         ELSE Step(Ret(PyBool(d.node.op = "and")), Tail(kont), frames)

\* vs = [a.eval(e) for a in self.args], then the operator
OpArg ==
  /\ Returning("OpArg")
  /\ LET d == Head(kont)
         vs == Append(d.vs, ctrl.val)
         r == Apply(d.node.op, vs)
     IN  IF d.i < Len(d.node.args)
         THEN Step(EvalIn(d.node.args[d.i + 1], d.env),
                   <<[d EXCEPT !.i = d.i + 1, !.vs = vs]>> \o Tail(kont), frames)
         ELSE IF r.r = "err" THEN error_runtime(r.line)
         ELSE IF r.r = "exc" THEN Uncaught(r.e)
         ELSE Step(Ret(r.v), Tail(kont), frames)

PrintEval ==
  /\ Evaluating("Print")
  /\ Step(EvalIn(ctrl.node.exp, ctrl.env),
          <<[k |-> "Print", is_n |-> ctrl.node.is_n]>> \o kont, frames)

\* print(check_num(v)) or print("#t" / "#f"); Print.eval returns None
PrintOut ==
  /\ Returning("Print")
  /\ LET d == Head(kont)
         v == ctrl.val
     IN  IF d.is_n /\ v.t # "int" THEN error_runtime(TypeError("number", v))
         ELSE IF ~d.is_n /\ v.t # "bool" THEN error_runtime(TypeError("boolean", v))
         ELSE /\ out' = Append(out, IF d.is_n THEN NumLine(v.v) ELSE BoolLine(v.v))
              /\ ctrl' = Ret(PyNone)
              /\ kont' = Tail(kont)
              /\ UNCHANGED <<input, ip, pc, status, exc, frames>>

Init ==
  /\ argc \in {0, 1}
  /\ readable \in BOOLEAN
  /\ src \in Sources
  /\ (argc = 0 \/ ~readable) => src = <<>>
  /\ argc = 0 => readable
  /\ pc = "start"
  /\ status = -1
  /\ exc = ""
  /\ nodes = <<>>
  /\ ip = 1
  /\ ctrl = Idle
  /\ kont = <<>>
  /\ frames = <<>>
  /\ out = <<>>

Next ==
  \/ Usage \/ Parse \/ NextStmt \/ Finish
  \/ ValEval \/ VarEval \/ DefEval \/ DefBind \/ IfEval \/ IfBranch
  \/ FunEval \/ CallEval \/ CallFn \/ CallArg \/ CallBody
  \/ OpEval \/ OpAndOr \/ OpArg \/ PrintEval \/ PrintOut

Spec == Init /\ [][Next]_vars

(***************************************************************************)
(* Properties.                                                             *)
(***************************************************************************)

\* C1: a closure made by evaluating a fun in environment E captures E; every
\* call of it, from whatever environment, runs the body in a fresh empty
\* frame whose parent is E; so a name that frame does not bind resolves to
\* the innermost binding of the chain that starts at E.
C1_LexicalScoping ==
  [][/\ Evaluating("Fun") => (ctrl'.m = "ret" /\ ctrl'.val.env = ctrl.env)
     /\ (Returning("CallF") /\ Len(frames') > Len(frames)) =>
          frames'[Len(frames')] = [b |-> <<>>, par |-> ctrl.val.env]
     /\ (Evaluating("Var") /\ ctrl.env # 1 /\ ~Has(frames[ctrl.env].b, ctrl.node.n)) =>
          LET RECURSIVE Innermost(_)
              Innermost(f) ==
                IF f = 0 THEN 0
                ELSE IF Has(frames[f].b, ctrl.node.n) THEN f
                ELSE Innermost(frames[f].par)
              g == Innermost(frames[ctrl.env].par)
          IN  g # 0 => ctrl' = Ret(Get(frames[g].b, ctrl.node.n))
    ]_vars

\* C2: a run that is given a file argument ends with exit status 0, every
\* failure being an error line on stdout; exit status 1 is the run without
\* an argument.
C2_ExitStatus ==
  pc = "exit" => IF argc = 0 THEN status = 1 ELSE (status = 0 /\ exc = "")

\* C3: stdout only grows, one line at a time; the step that writes an error
\* line ends the run and changes no frame; once an error line is written no
\* line is written, no node is evaluated and no frame is modified.
C3_FirstErrorAborts ==
  [][/\ (\E i \in 1..Len(out) : IsErrorLine(out[i])) =>
          UNCHANGED <<out, frames, ctrl, kont, ip>>
     /\ out' # out =>
          (Len(out') = Len(out) + 1 /\ SubSeq(out', 1, Len(out)) = out)
     /\ (out' # out /\ IsErrorLine(out'[Len(out')])) =>
          (pc' = "exit" /\ UNCHANGED <<frames, ctrl, kont, ip>>)
    ]_vars

\* a runtime error in the second or a later statement, inside a nested
\* evaluation, after earlier output
C3_Witness ==
  /\ pc = "exit"
  /\ Len(out) >= 2
  /\ IsErrorLine(out[Len(out)])
  /\ out[Len(out)].kind # "syntax"
  /\ ip >= 3
  /\ kont # <<>>

\* C4: and / or (two operands or more) start with the first operand and go
\* left to right; at the first #f of an and, the first #t of an or, the
\* operator returns that value at once: the next step leaves the operator,
\* with no later operand evaluated, no line written and no frame changed.
C4_ShortCircuit ==
  [][/\ (Evaluating("Op") /\ ctrl.node.op \in {"and", "or"} /\ Len(ctrl.node.args) >= 2) =>
          ctrl' = EvalIn(ctrl.node.args[1], ctrl.env)
     /\ (Returning("AndOr") /\ ctrl.val.t = "bool") =>
          LET d == Head(kont)
              decisive == IF d.node.op = "and" THEN ctrl.val.v = FALSE ELSE ctrl.val.v = TRUE
          IN  IF decisive
              THEN /\ ctrl' = Ret(PyBool(ctrl.val.v))
                   /\ kont' = Tail(kont)
                   /\ UNCHANGED <<out, frames, pc>>
              ELSE IF d.i < Len(d.node.args)
              THEN /\ ctrl' = EvalIn(d.node.args[d.i + 1], d.env)
                   /\ Head(kont').i = d.i + 1
              ELSE ctrl' = Ret(PyBool(d.node.op = "and"))
    ]_vars

\* an operand decides the result while a later operand, a call, is pending
C4_Witness ==
  /\ Returning("AndOr")
  /\ ctrl.val.t = "bool"
  /\ ctrl.val.v = (Head(kont).node.op = "or")
  /\ Head(kont).i < Len(Head(kont).node.args)
  /\ Head(kont).node.args[Head(kont).i + 1].c = "Call"

\* C5: an Int operator applied (with a legal argument count) to Int and Bool
\* operands of which one at least is a Bool ends in the type error "Expect
\* 'number' but got 'boolean'"; and, or, not, the test of if and print-bool
\* given an Int, and print-num given a Bool, end in the matching type error.
C5_NoCoercion ==
  [][LET TypeErrorExit(e, g) ==
           /\ out' = Append(out, [kind |-> "type", expect |-> e, got |-> g])
           /\ pc' = "exit"
         d == Head(kont)
         vs == Append(d.vs, ctrl.val)
     IN  /\ (/\ Returning("OpArg")
             /\ d.i = Len(d.node.args)
             /\ d.node.op \in {"+", "-", "*", "/", "mod", ">", "<", "="}
             /\ \A i \in 1..Len(vs) : vs[i].t \in {"int", "bool"}
             /\ \E i \in 1..Len(vs) : vs[i].t = "bool") =>
               TypeErrorExit("number", "boolean")
         /\ (Returning("OpArg") /\ d.node.op = "not" /\ ctrl.val.t = "int") =>
               TypeErrorExit("boolean", "number")
         /\ (Returning("AndOr") /\ ctrl.val.t = "int") =>
               TypeErrorExit("boolean", "number")
         /\ (Returning("If") /\ ctrl.val.t = "int") =>
               TypeErrorExit("boolean", "number")
         /\ (Returning("Print") /\ d.is_n /\ ctrl.val.t = "bool") =>
               TypeErrorExit("number", "boolean")
         /\ (Returning("Print") /\ ~d.is_n /\ ctrl.val.t = "int") =>
               TypeErrorExit("boolean", "number")
    ]_vars

\* C6: (define n e) in a frame that binds n prints the redefinition error
\* without evaluating e or changing a frame; in a frame that does not bind
\* n it goes on to evaluate e, whatever the enclosing frames bind, and the
\* value is then added to that frame only, every other frame unchanged.
C6_Redefinition ==
  [][/\ (Evaluating("Def") /\ ctrl.node.n.t = "str") =>
          IF \E i \in 1..Len(frames[ctrl.env].b) : frames[ctrl.env].b[i].k = ctrl.node.n
          THEN /\ out' = Append(out, [kind |-> "redefine", n |-> ctrl.node.n])
               /\ pc' = "exit"
               /\ UNCHANGED <<frames, ctrl, kont>>
          ELSE /\ ctrl' = EvalIn(ctrl.node.v, ctrl.env)
               /\ pc' = "eval"
               /\ UNCHANGED <<frames, out>>
     /\ (Returning("Def") /\ Head(kont).n.t = "str") =>
          LET d == Head(kont)
          IN  /\ Len(frames') = Len(frames)
              /\ \A f \in 1..Len(frames) : f # d.env => frames'[f] = frames[f]
              /\ frames'[d.env] =
                   [b |-> Append(frames[d.env].b, [k |-> d.n, v |-> ctrl.val]),
                    par |-> frames[d.env].par]
              /\ pc' = "eval"
              /\ out' = out
    ]_vars

\* a run that ended in the redefinition error after a frame of a call got
\* a binding of a name its parent binds too
C6_Witness ==
  /\ pc = "exit"
  /\ out # <<>>
  /\ out[Len(out)].kind = "redefine"
  /\ \E f \in 2..Len(frames) :
       /\ frames[f].par # 0
       /\ \E i \in 1..Len(frames[f].b) :
            /\ frames[f].b[i].k.t = "str"
            /\ Has(frames[frames[f].par].b, frames[f].b[i].k)

\* C7: evaluating a variable n yields the value bound in the innermost
\* frame of the parent chain that binds n, and prints "Variable n not
\* defined" only when no frame of the chain binds n.
C7_LookupWalksChain ==
  [][Evaluating("Var") =>
       LET RECURSIVE Innermost(_)
           Innermost(f) ==
             IF f = 0 THEN 0
             ELSE IF Has(frames[f].b, ctrl.node.n) THEN f
             ELSE Innermost(frames[f].par)
           g == Innermost(ctrl.env)
       IN  IF g # 0
           THEN ctrl' = Ret(Get(frames[g].b, ctrl.node.n)) /\ out' = out
           ELSE /\ out' = Append(out, [kind |-> "undefined", n |-> ctrl.node.n])
                /\ pc' = "exit"
    ]_vars

\* C8: a text with a character that is neither whitespace nor part of a
\* lexeme ends in a syntax error line, with nothing evaluated.
C8_LexerRejects ==
  (/\ pc # "start"
   /\ argc >= 1
   /\ readable
   /\ \E i \in 1..Len(Skipped(src, 1)) : Skipped(src, 1)[i] \notin White) =>
     (/\ pc = "exit"
      /\ Len(out) = 1
      /\ out[1].kind = "syntax"
      /\ frames = <<>>)

\* C9: no statement is evaluated of a program with a define whose name is
\* not a symbol, or is an operator spelling.
C9_DefineName ==
  pc = "eval" =>
    \A i \in 1..Len(nodes) :
      nodes[i].c = "Def" => (nodes[i].n.t = "str" /\ nodes[i].n.v \notin OpNames)

\* C10: every value bound in a frame, every value handed to an operator, a
\* test, a print, a define or a parameter, and the result of every call is
\* an Int, a Bool or a Closure.
C10_ThreeTags ==
  /\ \A f \in 1..Len(frames) : \A i \in 1..Len(frames[f].b) :
       frames[f].b[i].v.t \in {"int", "bool", "Closure"}
  /\ (pc = "eval" /\ ctrl.m = "ret" /\ kont # <<>>
      /\ (Head(kont).k = "Body" => Head(kont).i = Len(Head(kont).fn.body))) =>
       ctrl.val.t \in {"int", "bool", "Closure"}
====
